---- MODULE Spec2Model ----
(***************************************************************************)
(* Model of the OpenNMT-tf converter of CTranslate2                        *)
(* (python/ctranslate2/converters/opennmt_tf.py).                          *)
(*                                                                         *)
(* A numpy array is a record [obj, base, shape, data]: obj is the identity *)
(* of the Python object, base the identity of the buffer it reads (a view  *)
(* made by squeeze() or transpose() is a new object on the same buffer),   *)
(* shape the dimensions and data the elements in row-major order.          *)
(* A conversion is a record r = [spec, split_layers, exc, reads, name]: the *)
(* specification tree being populated, the temporary layers of the fusion, *)
(* the exception in flight, the store lookups made so far and the last     *)
(* name resolved.  Every setter is an operator that takes r, the path of   *)
(* its specification node in r and the store, and returns r as the Python  *)
(* function leaves it; a setter reached with an exception in flight leaves *)
(* r alone.  Python's 0-based                                              *)
(* list index i is the 1-based sequence index i + 1.                       *)
(***************************************************************************)
EXTENDS Integers, Sequences, FiniteSets, TLC

VARIABLES call, disk, model_spec, pc, exc, version, variables, reads, result

vars == <<call, disk, model_spec, pc, exc, version, variables, reads, result>>

-----------------------------------------------------------------------------
(* Bounds of the fixtures. *)

\* Largest number of layers of a specification template.
MaxLayers == 2
\* Largest number of contiguous layers (from index 0) held by a checkpoint.
MaxCkptLayers == 2
\* Model depth of the fixtures.
Depth == 2

\* Inner dimension of the feed-forward blocks and vocabulary size.
Inner == Depth + 1
VocabSize == Depth + 2

-----------------------------------------------------------------------------
(* numpy arrays *)

NoneArr == [obj |-> "None", base |-> "None", shape |-> <<>>, data |-> <<>>]

IsNone(a) == a.obj = "None"

RECURSIVE Prod(_)
Prod(s) == IF s = <<>> THEN 1 ELSE Head(s) * Prod(Tail(s))

Reverse(s) == [i \in 1..Len(s) |-> s[Len(s) + 1 - i]]

\* Multi-index (0-based, one entry per dimension) of the row-major offset k.
RECURSIVE Unravel(_, _)
Unravel(k, shape) ==
    IF shape = <<>> THEN <<>>
    ELSE LET inner == Prod(Tail(shape))
         IN  <<k \div inner>> \o Unravel(k % inner, Tail(shape))

\* Row-major offset of a multi-index.
RECURSIVE Ravel(_, _)
Ravel(idx, shape) ==
    IF shape = <<>> THEN 0
    ELSE Head(idx) * Prod(Tail(shape)) + Ravel(Tail(idx), Tail(shape))

\* ndarray.squeeze(): the array itself when no dimension has size one,
\* otherwise a view without the dimensions of size one.
Squeeze(a) ==
    IF \A i \in DOMAIN a.shape : a.shape[i] # 1
    THEN a
    ELSE [obj |-> "squeeze(" \o a.obj \o ")",
          base |-> a.base,
          shape |-> SelectSeq(a.shape, LAMBDA d : d # 1),
          data |-> a.data]

\* ndarray.transpose(): a view with the axes reversed.
Transpose(a) ==
    LET rs == Reverse(a.shape)
    IN  [obj |-> "transpose(" \o a.obj \o ")",
         base |-> a.base,
         shape |-> rs,
         data |-> [k \in 1..Len(a.data) |->
                     a.data[Ravel(Reverse(Unravel(k - 1, rs)), a.shape) + 1]]]

\* np.array_equal: same shape and same elements.
ArrayEqual(a, b) == a.shape = b.shape /\ a.data = b.data

-----------------------------------------------------------------------------
(* Specification nodes as their constructors leave them *)

LinearSpec == [weight |-> NoneArr, bias |-> NoneArr]

LayerNormSpec == [gamma |-> NoneArr, beta |-> NoneArr]

EmbeddingsSpec == [weight |-> NoneArr, multiply_by_sqrt_depth |-> FALSE]

MultiHeadAttentionSpec(self_attention) ==
    [layer_norm |-> LayerNormSpec,
     linear |-> [i \in 1..(IF self_attention THEN 2 ELSE 3) |-> LinearSpec],
     relative_position_keys |-> NoneArr,
     relative_position_values |-> NoneArr]

FeedForwardSpec ==
    [layer_norm |-> LayerNormSpec, linear_0 |-> LinearSpec, linear_1 |-> LinearSpec]

TransformerEncoderLayerSpec ==
    [self_attention |-> MultiHeadAttentionSpec(TRUE), ffn |-> FeedForwardSpec]

TransformerDecoderLayerSpec ==
    [self_attention |-> MultiHeadAttentionSpec(TRUE),
     attention |-> MultiHeadAttentionSpec(FALSE),
     ffn |-> FeedForwardSpec]

TransformerSpec(num_layers, with_relative_position) ==
    [with_relative_position |-> with_relative_position,
     encoder |-> [embeddings |-> EmbeddingsSpec,
                  layer_norm |-> LayerNormSpec,
                  layer |-> [i \in 1..num_layers |-> TransformerEncoderLayerSpec]],
     decoder |-> [embeddings |-> EmbeddingsSpec,
                  layer_norm |-> LayerNormSpec,
                  projection |-> LinearSpec,
                  layer |-> [i \in 1..num_layers |-> TransformerDecoderLayerSpec]],
     vocabularies |-> [source |-> <<>>, target |-> <<>>]]

-----------------------------------------------------------------------------
(* The run of the setters *)

(***************************************************************************)
(* r is the run so far: r.spec the caller's specification tree,            *)
(* r.split_layers the local list of an attention setter, r.exc the         *)
(* exception in flight, r.reads the number of store lookups made and       *)
(* r.name the value the last set_embeddings returned.  A specification     *)
(* object is referred to by its path in r (the Python reference): the      *)
(* setters take the run and the path of the node they populate, and give   *)
(* the run as the Python function leaves it.  A setter reached with an     *)
(* exception in flight does nothing.                                       *)
(***************************************************************************)

NoExc == [type |-> "None", name |-> ""]

KeyError(name) == [type |-> "KeyError", name |-> name]

Begin(tree) ==
    [spec |-> tree, split_layers |-> <<>>, exc |-> NoExc, reads |-> 0, name |-> ""]

Raised(r) == r.exc.type # "None"

Fail(r, e) == [r EXCEPT !.exc = e]

\* The except clause is entered: the exception is no longer in flight.
Caught(r) == [r EXCEPT !.exc = NoExc]

Count(r) == [r EXCEPT !.reads = @ + 1]

RECURSIVE At(_, _)
At(x, path) == IF path = <<>> THEN x ELSE At(x[Head(path)], Tail(path))

RECURSIVE Put(_, _, _)
Put(x, path, v) ==
    IF path = <<>> THEN v
    ELSE [x EXCEPT ![Head(path)] = Put(x[Head(path)], Tail(path), v)]

\* node.attr = variables[name]
SetAttr(r, node, attr, vs, name) ==
    IF Raised(r) THEN r
    ELSE IF name \in DOMAIN vs
         THEN Put(Count(r), node \o <<attr>>, vs[name])
         ELSE Fail(Count(r), KeyError(name))

-----------------------------------------------------------------------------
(* Leaf setters *)

set_layer_norm(r, node, vs, scope) ==
    SetAttr(SetAttr(r, node, "gamma", vs, scope \o "/gamma"),
            node, "beta", vs, scope \o "/beta")

\* SetWeight without the squeeze.
SetWeight_NoSqueeze(r, node, vs, weight_name, transpose) ==
    IF Raised(r) THEN r
    ELSE IF weight_name \in DOMAIN vs
         THEN Put(Count(r), node \o <<"weight">>,
                  IF transpose THEN Transpose(vs[weight_name]) ELSE vs[weight_name])
         ELSE Fail(Count(r), KeyError(weight_name))

\* spec.weight = variables[weight_name].squeeze(), transposed on request
SetWeight(r, node, vs, weight_name, transpose) ==
    IF Raised(r) THEN r
    ELSE IF weight_name \in DOMAIN vs
         THEN Put(Count(r), node \o <<"weight">>,
                  IF transpose THEN Transpose(Squeeze(vs[weight_name]))
                  ELSE Squeeze(vs[weight_name]))
         ELSE Fail(Count(r), KeyError(weight_name))

\* bias = variables.get(name); the bias is set when there is one
SetBias(r, node, vs, name) ==
    IF Raised(r) THEN r
    ELSE IF name \in DOMAIN vs
         THEN Put(Count(r), node \o <<"bias">>, vs[name])
         ELSE Count(r)

\* weight_name = "" stands for None.
set_linear(r, node, vs, scope, weight_name, transpose) ==
    SetBias(SetWeight(r, node, vs,
                      IF weight_name = "" THEN scope \o "/kernel" ELSE weight_name,
                      transpose),
            node, vs, scope \o "/bias")

SetEmbeddings(r, node, vs, variable_name) ==
    IF Raised(r) THEN r
    ELSE IF variable_name \in DOMAIN vs
         THEN [Put(Put(Count(r), node \o <<"weight">>, vs[variable_name]),
                   node \o <<"multiply_by_sqrt_depth">>, TRUE)
                 EXCEPT !.name = variable_name]
         ELSE Fail(Count(r), KeyError(variable_name))

set_embeddings(r, node, vs, scope, ver) ==
    SetEmbeddings(r, node, vs,
                  scope \o "/" \o (IF ver = 2 THEN "embedding" ELSE "w_embs"))

-----------------------------------------------------------------------------
(* Linear fusion (ctranslate2.converters.utils.fuse_linear) *)

RECURSIVE SumHeads(_)
SumHeads(shapes) == IF shapes = <<>> THEN 0 ELSE Head(shapes)[1] + SumHeads(Tail(shapes))

RECURSIVE Flat(_)
Flat(seqs) == IF seqs = <<>> THEN <<>> ELSE Head(seqs) \o Flat(Tail(seqs))

\* np.concatenate along the first axis needs arrays of at least one dimension
\* that agree on every other dimension.
CanConcatenate(arrs) ==
    /\ arrs # <<>>
    /\ \A i \in 1..Len(arrs) :
          /\ arrs[i].shape # <<>>
          /\ Tail(arrs[i].shape) = Tail(arrs[1].shape)

\* np.concatenate: a new array on a buffer of its own.
Concatenate(arrs, tag) ==
    [obj |-> tag, base |-> tag,
     shape |-> <<SumHeads([i \in 1..Len(arrs) |-> arrs[i].shape])>> \o Tail(arrs[1].shape),
     data |-> Flat([i \in 1..Len(arrs) |-> arrs[i].data])]

Weights(layers) == [i \in 1..Len(layers) |-> layers[i].weight]

Biases(layers) == [i \in 1..Len(layers) |-> layers[i].bias]

\* The fused node: the weights concatenated, and the biases when every part
\* has one.
Fused(spec, layers) ==
    [weight |-> Concatenate(Weights(layers), "concatenate(weight)"),
     bias |-> IF \A i \in 1..Len(layers) : ~IsNone(layers[i].bias)
              THEN Concatenate(Biases(layers), "concatenate(bias)")
              ELSE spec.bias]

\* layers is r.split_layers, or its last n entries.
fuse_linear(r, node, layers) ==
    IF Raised(r) THEN r
    ELSE IF ~CanConcatenate(Weights(layers))
         THEN Fail(r, [type |-> "ValueError", name |-> ""])
         ELSE Put(r, node, Fused(At(r, node), layers))

-----------------------------------------------------------------------------
(* Generation 2 setters *)

set_ffn_v2(r, node, vs, scope) ==
    set_linear(
        set_linear(
            set_layer_norm(r, node \o <<"layer_norm">>, vs, scope \o "/input_layer_norm"),
            node \o <<"linear_0">>, vs, scope \o "/layer/inner", "", TRUE),
        node \o <<"linear_1">>, vs, scope \o "/layer/outer", "", TRUE)

\* split_layers = [common_spec.LinearSpec() for _ in range(n)]
NewSplitLayers(r, n) ==
    IF Raised(r) THEN r ELSE [r EXCEPT !.split_layers = [i \in 1..n |-> LinearSpec]]

\* utils.fuse_linear(spec.linear[i], split_layers)
FuseSplitLayers(r, node) == fuse_linear(r, node, r.split_layers)

\* SetRelativePosition that does not look at the flag.
SetRelativePosition_Always(r, node, vs, scope, relative) ==
    SetAttr(SetAttr(r, node, "relative_position_keys", vs,
                    scope \o "/layer/relative_position_keys"),
            node, "relative_position_values", vs,
            scope \o "/layer/relative_position_values")

\* if relative: the two relative position tensors
SetRelativePosition(r, node, vs, scope, relative) ==
    IF relative
    THEN SetAttr(SetAttr(r, node, "relative_position_keys", vs,
                         scope \o "/layer/relative_position_keys"),
                 node, "relative_position_values", vs,
                 scope \o "/layer/relative_position_values")
    ELSE r

\* SelfAttentionBranch with the keys read into the first split layer.
SelfAttentionBranch_KeysFirst(r, node, vs, scope, relative) ==
    SetRelativePosition(
        FuseSplitLayers(
            set_linear(
                set_linear(
                    set_linear(NewSplitLayers(r, 3), <<"split_layers", 1>>, vs,
                               scope \o "/layer/linear_keys", "", TRUE),
                    <<"split_layers", 2>>, vs, scope \o "/layer/linear_queries", "", TRUE),
                <<"split_layers", 3>>, vs, scope \o "/layer/linear_values", "", TRUE),
            node \o <<"linear", 1>>),
        node, vs, scope, relative)

\* if self_attention: ... (lines 204-215)
SelfAttentionBranch(r, node, vs, scope, relative) ==
    SetRelativePosition(
        FuseSplitLayers(
            set_linear(
                set_linear(
                    set_linear(NewSplitLayers(r, 3), <<"split_layers", 1>>, vs,
                               scope \o "/layer/linear_queries", "", TRUE),
                    <<"split_layers", 2>>, vs, scope \o "/layer/linear_keys", "", TRUE),
                <<"split_layers", 3>>, vs, scope \o "/layer/linear_values", "", TRUE),
            node \o <<"linear", 1>>),
        node, vs, scope, relative)

\* else: ... (lines 217-221)
CrossAttentionBranch(r, node, vs, scope) ==
    FuseSplitLayers(
        set_linear(
            set_linear(
                NewSplitLayers(
                    set_linear(r, node \o <<"linear", 1>>, vs,
                               scope \o "/layer/linear_queries", "", TRUE),
                    2),
                <<"split_layers", 1>>, vs, scope \o "/layer/linear_keys", "", TRUE),
            <<"split_layers", 2>>, vs, scope \o "/layer/linear_values", "", TRUE),
        node \o <<"linear", 2>>)

\* set_linear(spec.linear[-1], ...)
SetLastLinear(r, node, vs, scope) ==
    set_linear(r, node \o <<"linear", Len(At(r, node \o <<"linear">>))>>, vs,
               scope \o "/layer/linear_output", "", TRUE)

AttentionBranch(r, node, vs, scope, self_attention, relative) ==
    IF self_attention
    THEN SelfAttentionBranch(r, node, vs, scope, relative)
    ELSE CrossAttentionBranch(r, node, vs, scope)

set_multi_head_attention_v2(r, node, vs, scope, self_attention, relative) ==
    SetLastLinear(
        AttentionBranch(
            set_layer_norm(r, node \o <<"layer_norm">>, vs, scope \o "/input_layer_norm"),
            node, vs, scope, self_attention, relative),
        node, vs, scope)

set_transformer_encoder_layer_v2(r, node, vs, scope, relative) ==
    set_multi_head_attention_v2(
        set_ffn_v2(r, node \o <<"ffn">>, vs, scope \o "/ffn"),
        node \o <<"self_attention">>, vs, scope \o "/self_attention", TRUE, relative)

set_transformer_decoder_layer_v2(r, node, vs, scope, relative) ==
    set_multi_head_attention_v2(
        set_multi_head_attention_v2(
            set_ffn_v2(r, node \o <<"ffn">>, vs, scope \o "/ffn"),
            node \o <<"self_attention">>, vs, scope \o "/self_attention", TRUE, relative),
        node \o <<"attention">>, vs, scope \o "/attention/0", FALSE, relative)

\* for i, layer in enumerate(spec.layer), from index i on.
RECURSIVE EncoderLayersV2(_, _, _, _, _, _)
EncoderLayersV2(r, node, vs, scope, relative, i) ==
    IF i >= Len(At(r, node \o <<"layer">>)) THEN r
    ELSE EncoderLayersV2(
             set_transformer_encoder_layer_v2(
                 r, node \o <<"layer", i + 1>>, vs,
                 scope \o "/layers/" \o ToString(i), relative),
             node, vs, scope, relative, i + 1)

RECURSIVE DecoderLayersV2(_, _, _, _, _, _)
DecoderLayersV2(r, node, vs, scope, relative, i) ==
    IF i >= Len(At(r, node \o <<"layer">>)) THEN r
    ELSE DecoderLayersV2(
             set_transformer_decoder_layer_v2(
                 r, node \o <<"layer", i + 1>>, vs,
                 scope \o "/layers/" \o ToString(i), relative),
             node, vs, scope, relative, i + 1)

set_transformer_encoder_v2(r, node, vs, scope, relative) ==
    EncoderLayersV2(
        set_layer_norm(r, node \o <<"layer_norm">>, vs, scope \o "/layer_norm"),
        node, vs, scope, relative, 0)

\* if not np.array_equal(projection.weight, embeddings.weight): transpose
TransposeUnlessTied(r, node) ==
    IF Raised(r) \/ ArrayEqual(At(r, node \o <<"projection", "weight">>),
                               At(r, node \o <<"embeddings", "weight">>))
    THEN r
    ELSE Put(r, node \o <<"projection", "weight">>,
             Transpose(At(r, node \o <<"projection", "weight">>)))

\* ExceptProjectionV2 that transposes the embeddings it reuses.
ExceptProjectionV2_Transposed(r, node, vs, scope, target_embedding_name) ==
    IF r.exc.type = "KeyError"
    THEN set_linear(Caught(r), node \o <<"projection">>, vs, scope \o "/output_layer",
                    target_embedding_name, TRUE)
    ELSE r

\* except KeyError: the projection reuses the target embeddings
ExceptProjectionV2(r, node, vs, scope, target_embedding_name) ==
    IF r.exc.type = "KeyError"
    THEN set_linear(Caught(r), node \o <<"projection">>, vs, scope \o "/output_layer",
                    target_embedding_name, FALSE)
    ELSE r

\* try: ... except KeyError: ... (lines 144-160)
SetProjectionV2(r, node, vs, scope, target_embedding_name) ==
    IF Raised(r) THEN r
    ELSE ExceptProjectionV2(
             TransposeUnlessTied(
                 set_linear(r, node \o <<"projection">>, vs, scope \o "/output_layer",
                            "", FALSE),
                 node),
             node, vs, scope, target_embedding_name)

set_transformer_decoder_v2(r, node, vs, scope, target_embedding_name, relative) ==
    DecoderLayersV2(
        set_layer_norm(
            SetProjectionV2(r, node, vs, scope, target_embedding_name),
            node \o <<"layer_norm">>, vs, scope \o "/layer_norm"),
        node, vs, scope, relative, 0)

\* except KeyError: the labels share the features inputter
ExceptTargetEmbeddingsV2(r, vs) ==
    IF r.exc.type = "KeyError"
    THEN set_embeddings(Caught(r), <<"spec", "decoder", "embeddings">>, vs,
                        "model/examples_inputter/features_inputter", 2)
    ELSE r

\* try: ... except KeyError: ... (lines 107-120)
SetTargetEmbeddingsV2(r, vs) ==
    IF Raised(r) THEN r
    ELSE ExceptTargetEmbeddingsV2(
             set_embeddings(r, <<"spec", "decoder", "embeddings">>, vs,
                            "model/examples_inputter/labels_inputter", 2),
             vs)

\* lines 121-130; r.name is target_embedding_name
SetEncoderDecoderV2(r, vs) ==
    set_transformer_decoder_v2(
        set_transformer_encoder_v2(r, <<"spec", "encoder">>, vs, "model/encoder",
                                   r.spec.with_relative_position),
        <<"spec", "decoder">>, vs, "model/decoder", r.name,
        r.spec.with_relative_position)

set_transformer_spec_v2(r, vs) ==
    SetEncoderDecoderV2(
        SetTargetEmbeddingsV2(
            set_embeddings(r, <<"spec", "encoder", "embeddings">>, vs,
                           "model/examples_inputter/features_inputter", 2),
            vs),
        vs)

-----------------------------------------------------------------------------
(* Generation 1 setters *)

set_ffn(r, node, vs, scope) ==
    set_linear(
        set_linear(
            set_layer_norm(r, node \o <<"layer_norm">>, vs, scope \o "/LayerNorm"),
            node \o <<"linear_0">>, vs, scope \o "/conv1d", "", TRUE),
        node \o <<"linear_1">>, vs, scope \o "/conv1d_1", "", TRUE)

\* if not self_attention: set_linear(spec.linear[2], ...)
SetThirdLinear(r, node, vs, scope, self_attention) ==
    IF self_attention THEN r
    ELSE set_linear(r, node \o <<"linear", 3>>, vs, scope \o "/conv1d_2", "", TRUE)

set_multi_head_attention(r, node, vs, scope, self_attention) ==
    SetThirdLinear(
        set_linear(
            set_linear(
                set_layer_norm(r, node \o <<"layer_norm">>, vs, scope \o "/LayerNorm"),
                node \o <<"linear", 1>>, vs, scope \o "/conv1d", "", TRUE),
            node \o <<"linear", 2>>, vs, scope \o "/conv1d_1", "", TRUE),
        node, vs, scope, self_attention)

set_transformer_encoder_layer(r, node, vs, scope) ==
    set_multi_head_attention(
        set_ffn(r, node \o <<"ffn">>, vs, scope \o "/ffn"),
        node \o <<"self_attention">>, vs, scope \o "/multi_head", TRUE)

set_transformer_decoder_layer(r, node, vs, scope) ==
    set_multi_head_attention(
        set_multi_head_attention(
            set_ffn(r, node \o <<"ffn">>, vs, scope \o "/ffn"),
            node \o <<"self_attention">>, vs, scope \o "/masked_multi_head", TRUE),
        node \o <<"attention">>, vs, scope \o "/multi_head", FALSE)

\* for i, layer in enumerate(spec.layer), from index i on.
RECURSIVE EncoderLayers(_, _, _, _)
EncoderLayers(r, node, vs, i) ==
    IF i >= Len(At(r, node \o <<"layer">>)) THEN r
    ELSE EncoderLayers(
             set_transformer_encoder_layer(
                 r, node \o <<"layer", i + 1>>, vs,
                 "transformer/encoder/layer_" \o ToString(i)),
             node, vs, i + 1)

RECURSIVE DecoderLayers(_, _, _, _)
DecoderLayers(r, node, vs, i) ==
    IF i >= Len(At(r, node \o <<"layer">>)) THEN r
    ELSE DecoderLayers(
             set_transformer_decoder_layer(
                 r, node \o <<"layer", i + 1>>, vs,
                 "transformer/decoder/layer_" \o ToString(i)),
             node, vs, i + 1)

\* ExceptEmbeddings without the fallback.
ExceptEmbeddings_NoFallback(r, node, vs) == r

\* except KeyError: try the shared embeddings scope instead
ExceptEmbeddings(r, node, vs) ==
    IF r.exc.type = "KeyError"
    THEN set_embeddings(Caught(r), node \o <<"embeddings">>, vs,
                        "transformer/shared_embeddings", 1)
    ELSE r

\* try: set_embeddings(spec.embeddings, variables, scope) except KeyError: ...
SetEmbeddingsOrShared(r, node, vs, scope) ==
    IF Raised(r) THEN r
    ELSE ExceptEmbeddings(
             set_embeddings(r, node \o <<"embeddings">>, vs, scope, 1), node, vs)

set_transformer_encoder(r, node, vs) ==
    EncoderLayers(
        SetEmbeddingsOrShared(
            set_layer_norm(r, node \o <<"layer_norm">>, vs,
                           "transformer/encoder/LayerNorm"),
            node, vs, "transformer/encoder"),
        node, vs, 0)

\* except KeyError: try reusing the target embeddings; r.name is embeddings_name
ExceptProjection(r, node, vs) ==
    IF r.exc.type = "KeyError"
    THEN set_linear(Caught(r), node \o <<"projection">>, vs, "transformer",
                    r.name, FALSE)
    ELSE r

\* try: set_linear(spec.projection, ...) except KeyError: ... (lines 255-265)
SetProjection(r, node, vs) ==
    IF Raised(r) THEN r
    ELSE ExceptProjection(
             set_linear(r, node \o <<"projection">>, vs, "transformer/decoder/dense",
                        "", TRUE),
             node, vs)

set_transformer_decoder(r, node, vs) ==
    DecoderLayers(
        set_layer_norm(
            SetProjection(
                SetEmbeddingsOrShared(r, node, vs, "transformer/decoder"),
                node, vs),
            node \o <<"layer_norm">>, vs, "transformer/decoder/LayerNorm"),
        node, vs, 0)

set_transformer_spec(r, vs) ==
    IF r.spec.with_relative_position
    THEN Fail(r, [type |-> "NotImplementedError", name |-> ""])
    ELSE set_transformer_decoder(
             set_transformer_encoder(r, <<"spec", "encoder">>, vs),
             <<"spec", "decoder">>, vs)

-----------------------------------------------------------------------------
(* Vocabularies *)

UnkToken == "<unk>"

InSeq(x, s) == \E i \in 1..Len(s) : s[i] = x

\* A vocabulary argument is [kind, tokens]: an opennmt.data.Vocab ("Vocab"), a
\* list ("list") or the path of a vocabulary file ("str"), with the tokens it
\* holds; any other kind is an object of another type.
InvalidVocabulary == [type |-> "TypeError", name |-> "Invalid vocabulary type"]

_load_vocab(vocab) ==
    IF vocab.kind \notin {"Vocab", "list", "str"}
    THEN [tokens |-> <<>>, exc |-> InvalidVocabulary]
    ELSE [tokens |-> IF InSeq(UnkToken, vocab.tokens) THEN vocab.tokens
                     ELSE Append(vocab.tokens, UnkToken),
          exc |-> NoExc]

-----------------------------------------------------------------------------
(* Fixture checkpoints: the tensors a trained model of each generation holds *)

Suffix == "/.ATTRIBUTES/VARIABLE_VALUE"

Var(name, shape, seed) ==
    name :> [obj |-> name, base |-> name, shape |-> shape,
             data |-> [k \in 1..Prod(shape) |-> seed + k]]

\* A projection of in_dim inputs and out_dim outputs, stored [in_dim, out_dim];
\* conv adds the leading singleton dimension of a 1x1 convolution.
Dense(scope, in_dim, out_dim, seed, conv) ==
    Var(scope \o "/kernel",
        IF conv THEN <<1, in_dim, out_dim>> ELSE <<in_dim, out_dim>>, seed)
    @@ Var(scope \o "/bias", <<out_dim>>, seed + 5)

Norm(scope, seed) ==
    Var(scope \o "/gamma", <<Depth>>, seed) @@ Var(scope \o "/beta", <<Depth>>, seed + 5)

EncoderLayerV1(i, conv) ==
    LET sc == "transformer/encoder/layer_" \o ToString(i)
        sd == 1000 * (i + 1)
    IN  Norm(sc \o "/ffn/LayerNorm", sd + 10)
        @@ Dense(sc \o "/ffn/conv1d", Depth, Inner, sd + 20, conv)
        @@ Dense(sc \o "/ffn/conv1d_1", Inner, Depth, sd + 30, conv)
        @@ Norm(sc \o "/multi_head/LayerNorm", sd + 40)
        @@ Dense(sc \o "/multi_head/conv1d", Depth, 3 * Depth, sd + 50, conv)
        @@ Dense(sc \o "/multi_head/conv1d_1", Depth, Depth, sd + 60, conv)

DecoderLayerV1(i, conv) ==
    LET sc == "transformer/decoder/layer_" \o ToString(i)
        sd == 1000 * (i + 1) + 500
    IN  Norm(sc \o "/ffn/LayerNorm", sd + 10)
        @@ Dense(sc \o "/ffn/conv1d", Depth, Inner, sd + 20, conv)
        @@ Dense(sc \o "/ffn/conv1d_1", Inner, Depth, sd + 30, conv)
        @@ Norm(sc \o "/masked_multi_head/LayerNorm", sd + 40)
        @@ Dense(sc \o "/masked_multi_head/conv1d", Depth, 3 * Depth, sd + 50, conv)
        @@ Dense(sc \o "/masked_multi_head/conv1d_1", Depth, Depth, sd + 60, conv)
        @@ Norm(sc \o "/multi_head/LayerNorm", sd + 70)
        @@ Dense(sc \o "/multi_head/conv1d", Depth, Depth, sd + 80, conv)
        @@ Dense(sc \o "/multi_head/conv1d_1", Depth, 2 * Depth, sd + 90, conv)
        @@ Dense(sc \o "/multi_head/conv1d_2", Depth, Depth, sd + 100, conv)

AttentionV2(sc, sd, conv, self_attention) ==
    Norm(sc \o "/input_layer_norm", sd)
    @@ Dense(sc \o "/layer/linear_queries", Depth, Depth, sd + 10, conv)
    @@ Dense(sc \o "/layer/linear_keys", Depth, Depth, sd + 20, conv)
    @@ Dense(sc \o "/layer/linear_values", Depth, Depth, sd + 30, conv)
    @@ Dense(sc \o "/layer/linear_output", Depth, Depth, sd + 40, conv)
    @@ (IF self_attention
        THEN Var(sc \o "/layer/relative_position_keys", <<3, Depth>>, sd + 50)
             @@ Var(sc \o "/layer/relative_position_values", <<3, Depth>>, sd + 60)
        ELSE <<>>)

FfnV2(sc, sd, conv) ==
    Norm(sc \o "/input_layer_norm", sd)
    @@ Dense(sc \o "/layer/inner", Depth, Inner, sd + 10, conv)
    @@ Dense(sc \o "/layer/outer", Inner, Depth, sd + 20, conv)

EncoderLayerV2(i, conv) ==
    LET sc == "model/encoder/layers/" \o ToString(i)
        sd == 1000 * (i + 1)
    IN  FfnV2(sc \o "/ffn", sd + 100, conv)
        @@ AttentionV2(sc \o "/self_attention", sd + 200, conv, TRUE)

DecoderLayerV2(i, conv) ==
    LET sc == "model/decoder/layers/" \o ToString(i)
        sd == 1000 * (i + 1) + 500
    IN  FfnV2(sc \o "/ffn", sd + 100, conv)
        @@ AttentionV2(sc \o "/self_attention", sd + 200, conv, TRUE)
        @@ AttentionV2(sc \o "/attention/0", sd + 300, conv, FALSE)

\* The tensors of the layers whose indices are in the set idx.
RECURSIVE LayersOf(_, _, _)
LayersOf(idx, gen, conv) ==
    IF idx = {} THEN <<>>
    ELSE LET i == CHOOSE j \in idx : TRUE
         IN  (IF gen = 1 THEN EncoderLayerV1(i, conv) @@ DecoderLayerV1(i, conv)
              ELSE EncoderLayerV2(i, conv) @@ DecoderLayerV2(i, conv))
             @@ LayersOf(idx \ {i}, gen, conv)

\* A complete checkpoint of generation gen with the layers idx; a tied
\* generation-2 checkpoint stores the output layer's kernel as a copy of the
\* target embeddings.
Complete(gen, idx, conv, tied) ==
    IF gen = 1
    THEN Var("transformer/encoder/w_embs", <<VocabSize, Depth>>, 100)
         @@ Var("transformer/decoder/w_embs", <<VocabSize, Depth>>, 200)
         @@ Var("transformer/shared_embeddings/w_embs", <<VocabSize, Depth>>, 300)
         @@ Norm("transformer/encoder/LayerNorm", 400)
         @@ Norm("transformer/decoder/LayerNorm", 500)
         @@ Dense("transformer/decoder/dense", Depth, VocabSize, 600, FALSE)
         @@ LayersOf(idx, 1, conv)
    ELSE Var("model/examples_inputter/features_inputter/embedding",
             <<VocabSize, Depth>>, 100)
         @@ Var("model/examples_inputter/labels_inputter/embedding",
                <<VocabSize, Depth>>, 200)
         @@ Norm("model/encoder/layer_norm", 400)
         @@ Norm("model/decoder/layer_norm", 500)
         @@ (IF tied
             THEN Var("model/decoder/output_layer/kernel", <<VocabSize, Depth>>, 200)
                  @@ Var("model/decoder/output_layer/bias", <<VocabSize>>, 605)
             ELSE Dense("model/decoder/output_layer", Depth, VocabSize, 600, FALSE))
         @@ LayersOf(idx, 2, conv)

Without(vs, names) == [n \in DOMAIN vs \ names |-> vs[n]]

\* Sets of tensors a checkpoint may lack.
Drops(gen) ==
    IF gen = 1
    THEN {{},
          {"transformer/encoder/w_embs", "transformer/decoder/w_embs"},
          {"transformer/shared_embeddings/w_embs"},
          {"transformer/encoder/w_embs", "transformer/shared_embeddings/w_embs"},
          {"transformer/decoder/w_embs", "transformer/shared_embeddings/w_embs"},
          {"transformer/decoder/dense/kernel", "transformer/decoder/dense/bias"},
          {"transformer/decoder/dense/kernel", "transformer/decoder/dense/bias",
           "transformer/encoder/w_embs", "transformer/decoder/w_embs"},
          {"transformer/encoder/LayerNorm/gamma", "transformer/encoder/w_embs",
           "transformer/shared_embeddings/w_embs"},
          {"transformer/encoder/LayerNorm/beta"},
          {"transformer/decoder/layer_0/ffn/LayerNorm/beta"},
          {"transformer/encoder/layer_0/multi_head/conv1d/bias"},
          {"transformer/decoder/layer_0/multi_head/conv1d_2/kernel"}}
    ELSE {{},
          {"model/examples_inputter/labels_inputter/embedding"},
          {"model/examples_inputter/features_inputter/embedding"},
          {"model/decoder/output_layer/kernel", "model/decoder/output_layer/bias"},
          {"model/decoder/output_layer/kernel", "model/decoder/output_layer/bias",
           "model/examples_inputter/labels_inputter/embedding"},
          {"model/encoder/layer_norm/beta"},
          {"model/decoder/layers/0/attention/0/input_layer_norm/beta"},
          {"model/encoder/layers/0/self_attention/layer/linear_keys/bias"},
          {"model/decoder/layers/0/attention/0/layer/linear_values/kernel"},
          {"model/encoder/layers/0/self_attention/layer/relative_position_values"},
          {"model/decoder/layers/0/self_attention/layer/relative_position_keys"}}

\* Layer indices of a checkpoint: 0 .. k-1, and with a gap also k+1.
LayerSets ==
    {(0..(k - 1)) \cup (IF gap THEN {k + 1} ELSE {}) :
        k \in 1..MaxCkptLayers, gap \in BOOLEAN}

\* A tied kernel is a copy of the labels embeddings, so a tied checkpoint
\* holds them.
Checkpoints(gen) ==
    UNION {{Without(Complete(gen, idx, conv, tied), drop) :
               idx \in LayerSets, conv \in BOOLEAN,
               tied \in (IF gen = 2 /\ "model/examples_inputter/labels_inputter/embedding"
                                          \notin drop
                         THEN BOOLEAN ELSE {FALSE})} :
           drop \in Drops(gen)}

Plain(gen) == Complete(gen, 0..(MaxCkptLayers - 1), FALSE, FALSE)

Templates ==
    {TransformerSpec(n, rel) : n \in 1..MaxLayers, rel \in BOOLEAN}

VocabPairs ==
    {<<[kind |-> "list", tokens |-> <<"a", "b">>],
       [kind |-> "str", tokens |-> <<"<unk>", "c">>]>>,
     <<[kind |-> "Vocab", tokens |-> <<"a">>],
       [kind |-> "tuple", tokens |-> <<"a", "b">>]>>,
     <<[kind |-> "None", tokens |-> <<>>],
       [kind |-> "list", tokens |-> <<"a", "<unk>">>]>>}

NoVariables == [kind |-> "None", map |-> <<>>]

\* What model_path names is [kind, basename, tensors, error]: a checkpoint
\* file ("checkpoint") with its base name and its tensors; a directory
\* ("directory") with the base name and the tensors of the checkpoint that
\* tf.train.latest_checkpoint finds in it; a directory that holds no
\* checkpoint ("empty_directory"), for which latest_checkpoint returns None
\* and tf.train.load_checkpoint(None) raises the library's error; a
\* SavedModel ("saved_model").  tensors is the sequence of the <<key, value>>
\* entries of the checkpoint, in the order in which
\* reader.get_variable_to_shape_map() lists its keys.
NoDisk == [kind |-> "none", basename |-> "", tensors |-> <<>>, error |-> "None"]

SavedModel ==
    [kind |-> "saved_model", basename |-> "", tensors |-> <<>>, error |-> "None"]

\* The error types tf.train.load_checkpoint may raise for None.
LoadErrors == {"TypeError", "ValueError"}

EmptyDirectory(e) ==
    [kind |-> "empty_directory", basename |-> "", tensors |-> <<>>, error |-> e]

\* The base names checkpoints are written under: TensorFlow 2 writes
\* ckpt-<step>, TensorFlow 1 model.ckpt-<step>.
Basenames(gen) ==
    IF gen = 2 THEN {"ckpt-5000", "ckpt-1", "ckpt"} ELSE {"model.ckpt-5000"}

\* The entries of a checkpoint for the tensors names of vs, in some order:
\* TensorFlow 2 keys every tensor as <name>/.ATTRIBUTES/VARIABLE_VALUE.
RECURSIVE Entries(_, _, _)
EntriesFrom(gen, vs, n, names) ==
    <<<<IF gen = 2 THEN n \o Suffix ELSE n, vs[n]>>>>
    \o Entries(gen, vs, names \ {n})

Entries(gen, vs, names) ==
    IF names = {} THEN <<>>
    ELSE EntriesFrom(gen, vs, CHOOSE n \in names : TRUE, names)

\* The entries of the tensors of vs whose names have lo to hi characters,
\* shorter names first.
RECURSIVE Listing(_, _, _, _)
Listing(gen, vs, lo, hi) ==
    IF lo = hi
    THEN Entries(gen, vs, {n \in DOMAIN vs : Len(n) = lo})
    ELSE Listing(gen, vs, lo, (lo + hi) \div 2)
         \o Listing(gen, vs, (lo + hi) \div 2 + 1, hi)

\* The length of the longest name of vs.
Longest(vs) ==
    IF DOMAIN vs = {} THEN 0
    ELSE CHOOSE l \in {Len(n) : n \in DOMAIN vs} :
            \A n \in DOMAIN vs : Len(n) <= l

Stored(gen, vs) == Listing(gen, vs, 0, Longest(vs))

\* A second entry of a TensorFlow 2 checkpoint whose key load_model renames
\* to the name of the source embeddings.
FeaturesName == "model/examples_inputter/features_inputter/embedding"

Duplicate(key) ==
    <<key, [obj |-> "duplicate", base |-> "duplicate",
            shape |-> <<VocabSize, Depth>>,
            data |-> [k \in 1..(VocabSize * Depth) |-> 700 + k]]>>

\* Checkpoint files with two keys of one name: the duplicate listed last
\* under a key that holds the suffix twice, and listed first under the bare
\* name.
Colliding ==
    {[kind |-> "checkpoint", basename |-> "ckpt-5000", error |-> "None",
      tensors |-> Append(Stored(2, Plain(2)),
                         Duplicate(FeaturesName \o Suffix \o Suffix))],
     [kind |-> "checkpoint", basename |-> "ckpt-5000", error |-> "None",
      tensors |-> <<Duplicate(FeaturesName)>> \o Stored(2, Plain(2))]}

\* A checkpoint file.
OnDisk(gen, base, vs) ==
    [kind |-> "checkpoint", basename |-> base, tensors |-> Stored(gen, vs),
     error |-> "None"]

\* A directory whose latest checkpoint is the file OnDisk(gen, base, vs).
Directory(gen, base, vs) ==
    [OnDisk(gen, base, vs) EXCEPT !.kind = "directory"]

-----------------------------------------------------------------------------
(* The converter *)

\* The call OpenNMTTFConverter(model_spec, src_vocab, tgt_vocab, model_path,
\* variables) followed by _load(): the arguments, the checkpoint at model_path
\* and the caller's specification, which the converter holds by reference.
Calls ==
    \* a checkpoint file of either generation
    {[model_path |-> "path", variables |-> NoVariables,
      disk |-> OnDisk(1, b, vs)] : vs \in Checkpoints(1), b \in Basenames(1)}
    \cup {[model_path |-> "path", variables |-> NoVariables,
           disk |-> OnDisk(2, b, Plain(2))] : b \in Basenames(2)}
    \cup {[model_path |-> "path", variables |-> NoVariables, disk |-> d] :
              d \in Colliding}
    \* a directory of checkpoints, and one that holds none
    \cup {[model_path |-> "path", variables |-> NoVariables,
           disk |-> Directory(gen, b, Plain(gen))] :
              gen \in {1, 2}, b \in {"ckpt-5000", "model.ckpt-5000"}}
    \cup {[model_path |-> "path", variables |-> NoVariables,
           disk |-> EmptyDirectory(e)] : e \in LoadErrors}
    \* in-memory variables
    \cup {[model_path |-> "None", variables |-> [kind |-> "dict", map |-> vs],
           disk |-> NoDisk] : vs \in Checkpoints(2) \cup {Plain(1)}}
    \* a SavedModel directory
    \cup {[model_path |-> "path", variables |-> NoVariables,
           disk |-> SavedModel]}
    \* both, neither, and variables that are no dict
    \cup {[model_path |-> "path", variables |-> [kind |-> "dict", map |-> Plain(2)],
           disk |-> OnDisk(2, "ckpt-5000", Plain(2))],
          [model_path |-> "None", variables |-> NoVariables, disk |-> NoDisk],
          [model_path |-> "None", variables |-> [kind |-> "list", map |-> <<>>],
           disk |-> NoDisk]}

Init ==
    \E c \in Calls, t \in Templates, vp \in VocabPairs :
        /\ call = [model_path |-> c.model_path, variables |-> c.variables,
                   src_vocab |-> vp[1], tgt_vocab |-> vp[2]]
        /\ disk = c.disk
        /\ model_spec = t
        /\ pc = "new"
        /\ exc = NoExc
        /\ version = 0
        /\ variables = <<>>
        /\ reads = 0
        /\ result = "None"

ValueError(msg) == [type |-> "ValueError", name |-> msg]

\* Construct that refuses only the call with neither argument.
Construct_NeitherOnly ==
    /\ pc = "new"
    /\ IF call.model_path = "None" /\ call.variables.kind = "None"
       THEN /\ exc' = ValueError("Exactly one of model_path and variables should be set")
            /\ pc' = "raised"
       ELSE IF call.variables.kind # "None" /\ call.variables.kind # "dict"
       THEN /\ exc' = ValueError("variables should be a dict mapping variable name to value")
            /\ pc' = "raised"
       ELSE /\ exc' = exc
            /\ pc' = "constructed"
    /\ UNCHANGED <<call, disk, model_spec, version, variables, reads, result>>

\* OpenNMTTFConverter.__init__
Construct ==
    /\ pc = "new"
    /\ IF (call.model_path = "None") = (call.variables.kind = "None")
       THEN /\ exc' = ValueError("Exactly one of model_path and variables should be set")
            /\ pc' = "raised"
       ELSE IF call.variables.kind # "None" /\ call.variables.kind # "dict"
       THEN /\ exc' = ValueError("variables should be a dict mapping variable name to value")
            /\ pc' = "raised"
       ELSE /\ exc' = exc
            /\ pc' = "constructed"
    /\ UNCHANGED <<call, disk, model_spec, version, variables, reads, result>>

\* str.startswith
StartsWith(str, prefix) ==
    /\ Len(str) >= Len(prefix)
    /\ SubSeq(str, 1, Len(prefix)) = prefix

\* The indices at which old occurs in str.
Occurrences(str, old) ==
    {i \in 1..(Len(str) - Len(old) + 1) : SubSeq(str, i, i + Len(old) - 1) = old}

\* str.replace(old, new), old not empty: every occurrence of old, from the
\* left and without overlap, becomes new.
RECURSIVE Replace(_, _, _)
ReplaceAt(str, old, new, i) ==
    SubSeq(str, 1, i - 1) \o new
    \o Replace(SubSeq(str, i + Len(old), Len(str)), old, new)

Replace(str, old, new) ==
    IF Occurrences(str, old) = {} THEN str
    ELSE ReplaceAt(str, old, new,
                   CHOOSE i \in Occurrences(str, old) :
                      \A j \in Occurrences(str, old) : i <= j)

\* The name load_model gives the tensor stored under key.
VariableName(key, model_version) ==
    IF model_version = 2 THEN Replace(key, Suffix, "") ELSE key

\* The dictionary load_model builds of the entries lo to hi of tensors: of
\* two keys of one name the one listed later overwrites the other.
RECURSIVE Renamed(_, _, _, _)
Renamed(tensors, lo, hi, model_version) ==
    IF lo > hi THEN <<>>
    ELSE IF lo = hi
    THEN VariableName(tensors[lo][1], model_version) :> tensors[lo][2]
    ELSE Renamed(tensors, (lo + hi) \div 2 + 1, hi, model_version)
         @@ Renamed(tensors, lo, (lo + hi) \div 2, model_version)

\* load_model: the generation and the tensors of the checkpoint at model_path.
load_model(d) ==
    IF d.kind = "saved_model"
    THEN [version |-> 0, variables |-> <<>>,
          exc |-> [type |-> "RuntimeError", name |-> ""]]
    ELSE IF d.kind = "empty_directory"
    THEN [version |-> 0, variables |-> <<>>,
          exc |-> [type |-> d.error, name |-> "None"]]
    ELSE IF StartsWith(d.basename, "ckpt")
    THEN [version |-> 2, variables |-> Renamed(d.tensors, 1, Len(d.tensors), 2), exc |-> NoExc]
    ELSE [version |-> 1, variables |-> Renamed(d.tensors, 1, Len(d.tensors), 1), exc |-> NoExc]

\* _load, lines 85-90: the generation and the variables.
LoadModel ==
    /\ pc = "constructed"
    /\ IF call.model_path # "None"
       THEN LET r == load_model(disk)
            IN  /\ version' = r.version
                /\ variables' = r.variables
                /\ exc' = r.exc
                /\ pc' = IF r.exc = NoExc THEN "loaded" ELSE "raised"
       ELSE /\ version' = 2
            /\ variables' = call.variables.map
            /\ exc' = exc
            /\ pc' = "loaded"
    /\ UNCHANGED <<call, disk, model_spec, reads, result>>

\* The run of the setters ends: the caller's specification is as they left it.
Populated(r) ==
    /\ model_spec' = r.spec
    /\ reads' = r.reads
    /\ exc' = r.exc
    /\ pc' = IF Raised(r) THEN "raised" ELSE "populated"

\* _load, lines 91-94: the setters populate the caller's specification in place.
SetSpec ==
    /\ pc = "loaded"
    /\ Populated(IF version >= 2
                 THEN set_transformer_spec_v2(Begin(model_spec), variables)
                 ELSE set_transformer_spec(Begin(model_spec), variables))
    /\ UNCHANGED <<call, disk, version, variables, result>>

\* _load, line 95
RegisterSource ==
    /\ pc = "populated"
    /\ LET v == _load_vocab(call.src_vocab)
       IN  /\ exc' = v.exc
           /\ IF v.exc = NoExc
              THEN /\ model_spec' = [model_spec EXCEPT !.vocabularies.source = v.tokens]
                   /\ pc' = "source_registered"
              ELSE /\ model_spec' = model_spec
                   /\ pc' = "raised"
    /\ UNCHANGED <<call, disk, version, variables, reads, result>>

\* _load, line 96
RegisterTarget ==
    /\ pc = "source_registered"
    /\ LET v == _load_vocab(call.tgt_vocab)
       IN  /\ exc' = v.exc
           /\ IF v.exc = NoExc
              THEN /\ model_spec' = [model_spec EXCEPT !.vocabularies.target = v.tokens]
                   /\ pc' = "target_registered"
              ELSE /\ model_spec' = model_spec
                   /\ pc' = "raised"
    /\ UNCHANGED <<call, disk, version, variables, reads, result>>

\* _load, line 97
Return ==
    /\ pc = "target_registered"
    /\ result' = "model_spec"
    /\ pc' = "returned"
    /\ UNCHANGED <<call, disk, model_spec, exc, version, variables, reads>>

Next == Construct \/ LoadModel \/ SetSpec \/ RegisterSource \/ RegisterTarget \/ Return

Spec == Init /\ [][Next]_vars

-----------------------------------------------------------------------------
(* Vocabulary of the properties *)

NumLayers == Len(model_spec.encoder.layer)

\* The specification as the caller created it.
Pristine == TransformerSpec(NumLayers, model_spec.with_relative_position)

\* The setters ran to their end.
Converted ==
    \/ pc \in {"populated", "source_registered", "target_registered", "returned"}
    \/ pc = "raised" /\ exc = InvalidVocabulary

\* The setters ran, to their end or to an exception.
AfterSetSpec == version # 0 /\ pc \notin {"new", "constructed", "loaded"}

MissingVariable == AfterSetSpec /\ pc = "raised" /\ exc.type = "KeyError"

TS(a) == Transpose(Squeeze(a))

\* The first tensor the setters read of encoder and decoder layer i.
EncoderLayerMarker(i) ==
    IF version = 1
    THEN "transformer/encoder/layer_" \o ToString(i) \o "/ffn/LayerNorm/gamma"
    ELSE "model/encoder/layers/" \o ToString(i) \o "/ffn/input_layer_norm/gamma"

DecoderLayerMarker(i) ==
    IF version = 1
    THEN "transformer/decoder/layer_" \o ToString(i) \o "/ffn/LayerNorm/gamma"
    ELSE "model/decoder/layers/" \o ToString(i) \o "/ffn/input_layer_norm/gamma"

\* The number of contiguous layers, from index i on, the checkpoint holds.
RECURSIVE FirstMissingLayer(_)
FirstMissingLayer(i) ==
    IF EncoderLayerMarker(i) \in DOMAIN variables THEN FirstMissingLayer(i + 1) ELSE i

LayerMarkers ==
    {EncoderLayerMarker(i) : i \in 0..(MaxLayers + MaxCkptLayers + 2)}
    \cup {DecoderLayerMarker(i) : i \in 0..(MaxLayers + MaxCkptLayers + 2)}

ProjectionKernel ==
    IF version = 1 THEN "transformer/decoder/dense/kernel"
    ELSE "model/decoder/output_layer/kernel"

AttentionArrays(att) ==
    {att.layer_norm.gamma, att.layer_norm.beta,
     att.relative_position_keys, att.relative_position_values}
    \cup UNION {{att.linear[i].weight, att.linear[i].bias} : i \in DOMAIN att.linear}

FeedForwardArrays(ffn) ==
    {ffn.layer_norm.gamma, ffn.layer_norm.beta, ffn.linear_0.weight, ffn.linear_0.bias,
     ffn.linear_1.weight, ffn.linear_1.bias}

\* Every array a node of the tree holds.
TreeArrays(t) ==
    ({t.encoder.embeddings.weight, t.encoder.layer_norm.gamma, t.encoder.layer_norm.beta,
      t.decoder.embeddings.weight, t.decoder.layer_norm.gamma, t.decoder.layer_norm.beta,
      t.decoder.projection.weight, t.decoder.projection.bias}
     \cup UNION {AttentionArrays(t.encoder.layer[i].self_attention)
                 \cup FeedForwardArrays(t.encoder.layer[i].ffn)
                 \cup AttentionArrays(t.decoder.layer[i].self_attention)
                 \cup AttentionArrays(t.decoder.layer[i].attention)
                 \cup FeedForwardArrays(t.decoder.layer[i].ffn) :
                    i \in DOMAIN t.encoder.layer})
    \ {NoneArr}

-----------------------------------------------------------------------------
(* C1 *)

\* C1: when a required tensor is missing, the conversion aborts with a
\* KeyError naming that tensor, and at that moment no node of the caller's
\* specification has been written by the conversion.
C1_NoPartialTreeOnMissingVariable ==
    MissingVariable => exc.name \notin DOMAIN variables /\ model_spec = Pristine

-----------------------------------------------------------------------------
(* C5 *)

\* C5: a vocabulary of an invalid type is reported before any resolution work:
\* when the TypeError is raised no tensor has been looked up and no node of
\* the specification has been written.
C5_InvalidVocabularyBeforeResolution ==
    (pc = "raised" /\ exc = InvalidVocabulary) => reads = 0 /\ model_spec = Pristine

-----------------------------------------------------------------------------
(* C10 *)

\* C10: after a successful conversion no array held by a node of the tree is
\* the same array object as an entry of the variable store.
C10_TreeOwnsItsArrays ==
    Converted => \A a \in TreeArrays(model_spec) :
                    \A n \in DOMAIN variables : a.obj # variables[n].obj

-----------------------------------------------------------------------------
(* C2 *)

DecoderProjection == model_spec.decoder.projection.weight

TargetEmbeddings == model_spec.decoder.embeddings.weight

\* C2 as stated: without a dedicated kernel the projection weight is the
\* transposed target-embedding weight; with one, it is read from the kernel.
C2_TiedProjectionIsTransposedEmbedding ==
    Converted =>
        IF ProjectionKernel \in DOMAIN variables
        THEN DecoderProjection.base = ProjectionKernel
        ELSE ArrayEqual(DecoderProjection, Transpose(TargetEmbeddings))

\* C2, amended: a missing dedicated kernel never aborts the conversion; without
\* it the projection weight is the very array of the target embeddings, not
\* transposed (squeeze() of a table without a dimension of size one is the
\* table itself); with it the weight is the transpose of the squeezed kernel,
\* except that generation 2 keeps a kernel that equals the target embeddings
\* as it is stored, and it is never the array of the embeddings.
C2_ProjectionSource ==
    /\ MissingVariable => exc.name # ProjectionKernel
    /\ Converted =>
          IF ProjectionKernel \in DOMAIN variables
          THEN /\ DecoderProjection.base = ProjectionKernel
               /\ DecoderProjection # TargetEmbeddings
               /\ IF version = 2 /\ ArrayEqual(Squeeze(variables[ProjectionKernel]),
                                               TargetEmbeddings)
                  THEN DecoderProjection = Squeeze(variables[ProjectionKernel])
                  ELSE DecoderProjection = TS(variables[ProjectionKernel])
          ELSE /\ DecoderProjection = Squeeze(TargetEmbeddings)
               /\ DecoderProjection = TargetEmbeddings
               /\ \E n \in DOMAIN variables : DecoderProjection = variables[n]

\* A generation-2 conversion that tied the projection to the embeddings.
C2_Witness ==
    /\ Converted
    /\ version = 2
    /\ ProjectionKernel \notin DOMAIN variables
    /\ DecoderProjection = TargetEmbeddings
    /\ DecoderProjection.shape = <<VocabSize, Depth>>

-----------------------------------------------------------------------------
(* C3 *)

\* C3 as stated: the result has as many layers as the checkpoint holds
\* contiguously from index 0, and the first missing layer ends the loop
\* rather than the conversion.
C3_LayersDiscovered ==
    /\ Converted => NumLayers = FirstMissingLayer(0)
    /\ MissingVariable => exc.name \notin LayerMarkers

-----------------------------------------------------------------------------
(* C4 *)

ExactlyOneMessage == "Exactly one of model_path and variables should be set"

\* C4: constructing the converter with both or neither of model_path and
\* variables raises the configuration error before any lookup and any write;
\* with exactly one of them that error is not raised.
C4_ExactlyOneSource ==
    pc # "new" =>
        IF (call.model_path = "None") = (call.variables.kind = "None")
        THEN /\ pc = "raised"
             /\ exc = ValueError(ExactlyOneMessage)
             /\ reads = 0
             /\ version = 0
             /\ DOMAIN variables = {}
             /\ model_spec = Pristine
        ELSE exc # ValueError(ExactlyOneMessage)

\* The constructor refused a call that gave both a path and variables.
C4_Witness ==
    /\ pc = "raised"
    /\ call.model_path # "None"
    /\ call.variables.kind = "dict"
    /\ exc = ValueError(ExactlyOneMessage)

-----------------------------------------------------------------------------
(* C6 *)

\* lin is the fusion, in this order, of the projections under the scopes parts.
IsFusionOf(lin, parts) ==
    /\ lin.weight.data = Flat([i \in 1..Len(parts) |->
                                  TS(variables[parts[i] \o "/kernel"]).data])
    /\ lin.weight.shape[1] = SumHeads([i \in 1..Len(parts) |->
                                  TS(variables[parts[i] \o "/kernel"]).shape])

IsProjection(lin, scope) == ArrayEqual(lin.weight, TS(variables[scope \o "/kernel"]))

SelfAttentionLayout(att, sc) ==
    /\ Len(att.linear) = 2
    /\ IF version = 1
       THEN /\ IsProjection(att.linear[1], sc \o "/conv1d")
            /\ IsProjection(att.linear[2], sc \o "/conv1d_1")
       ELSE /\ IsFusionOf(att.linear[1], <<sc \o "/layer/linear_queries",
                                           sc \o "/layer/linear_keys",
                                           sc \o "/layer/linear_values">>)
            /\ IsProjection(att.linear[2], sc \o "/layer/linear_output")

CrossAttentionLayout(att, sc) ==
    /\ Len(att.linear) = 3
    /\ IF version = 1
       THEN /\ IsProjection(att.linear[1], sc \o "/conv1d")
            /\ IsProjection(att.linear[2], sc \o "/conv1d_1")
            /\ IsProjection(att.linear[3], sc \o "/conv1d_2")
       ELSE /\ IsProjection(att.linear[1], sc \o "/layer/linear_queries")
            /\ IsFusionOf(att.linear[2], <<sc \o "/layer/linear_keys",
                                           sc \o "/layer/linear_values">>)
            /\ IsProjection(att.linear[3], sc \o "/layer/linear_output")

LayerScope(side, i) ==
    IF version = 1 THEN "transformer/" \o side \o "/layer_" \o ToString(i)
    ELSE "model/" \o side \o "/layers/" \o ToString(i)

\* C6: in a converted tree a self-attention block holds the fusion of the
\* query, key and value projections, in that order, as entry 0 and the output
\* projection as entry 1; a cross-attention block holds the query projection,
\* the fusion of key then value, and the output projection; a fused entry's
\* output dimension is the sum of its parts'.  (A generation-1 checkpoint
\* stores the fused projections as one tensor, which is the entry.)
C6_AttentionLayout ==
    Converted =>
        \A i \in 1..NumLayers :
            /\ SelfAttentionLayout(
                   model_spec.encoder.layer[i].self_attention,
                   LayerScope("encoder", i - 1)
                      \o (IF version = 1 THEN "/multi_head" ELSE "/self_attention"))
            /\ SelfAttentionLayout(
                   model_spec.decoder.layer[i].self_attention,
                   LayerScope("decoder", i - 1)
                      \o (IF version = 1 THEN "/masked_multi_head" ELSE "/self_attention"))
            /\ CrossAttentionLayout(
                   model_spec.decoder.layer[i].attention,
                   LayerScope("decoder", i - 1)
                      \o (IF version = 1 THEN "/multi_head" ELSE "/attention/0"))

\* A generation-2 conversion fused the projections of an encoder layer.
C6_Witness ==
    /\ Converted
    /\ version = 2
    /\ model_spec.encoder.layer[1].self_attention.linear[1].weight.obj
          = "concatenate(weight)"
    /\ model_spec.decoder.layer[1].attention.linear[2].weight.shape = <<2 * Depth, Depth>>

-----------------------------------------------------------------------------
(* C7 *)

SharedEmbeddings == "transformer/shared_embeddings/w_embs"

FeaturesEmbedding == "model/examples_inputter/features_inputter/embedding"

LabelsEmbedding == "model/examples_inputter/labels_inputter/embedding"

\* The names tried for the embeddings of each side, in order.
EncoderEmbeddingChain ==
    IF version = 1 THEN <<"transformer/encoder/w_embs", SharedEmbeddings>>
    ELSE <<FeaturesEmbedding>>

DecoderEmbeddingChain ==
    IF version = 1 THEN <<"transformer/decoder/w_embs", SharedEmbeddings>>
    ELSE <<LabelsEmbedding, FeaturesEmbedding>>

Last(chain) == chain[Len(chain)]

FirstPresent(chain) == IF chain[1] \in DOMAIN variables THEN chain[1] ELSE Last(chain)

ResolvedFrom(emb, chain) ==
    /\ FirstPresent(chain) \in DOMAIN variables
    /\ emb.weight = variables[FirstPresent(chain)]

Exhausted(chain) == \A i \in 1..Len(chain) : chain[i] \notin DOMAIN variables

\* The names of the chains that have a fallback.
Primaries ==
    {"transformer/encoder/w_embs", "transformer/decoder/w_embs", LabelsEmbedding}

\* Each side's embeddings come from the first name of its chain that the
\* store holds, and no KeyError names a primary that has a fallback.
FirstPresentWins ==
    /\ Converted =>
          /\ ResolvedFrom(model_spec.encoder.embeddings, EncoderEmbeddingChain)
          /\ ResolvedFrom(model_spec.decoder.embeddings, DecoderEmbeddingChain)
    /\ MissingVariable => exc.name \notin Primaries

\* The tensors the setters of generation 1 resolve before they try a chain:
\* the encoder's layer norm before the encoder's embeddings, and the whole
\* encoder before the decoder's embeddings.  Generation 2 resolves the
\* embeddings first.
ResolvedBefore(chain) ==
    IF version # 1 THEN {}
    ELSE IF chain = EncoderEmbeddingChain
    THEN {"transformer/encoder/LayerNorm/gamma", "transformer/encoder/LayerNorm/beta"}
    ELSE {n \in DOMAIN Complete(1, 0..(NumLayers - 1), FALSE, FALSE) :
             /\ StartsWith(n, "transformer/encoder/")
             /\ n # "transformer/encoder/w_embs"}

\* The setters ran on a template they support.
Resolving ==
    AfterSetSpec /\ ~(version = 1 /\ model_spec.with_relative_position)

\* C7 as stated: the first name of each chain that the store holds supplies
\* the embeddings, and a chain whose names are all absent aborts the
\* conversion with a missing-variable error for its last name.
C7_ExhaustedChainNamesFallback ==
    /\ FirstPresentWins
    /\ \A chain \in {EncoderEmbeddingChain, DecoderEmbeddingChain} :
          (AfterSetSpec /\ Exhausted(chain)) =>
              MissingVariable /\ exc.name = Last(chain)

\* C7, amended: the first name of each chain that the store holds supplies the
\* embeddings.  On a template the setters support, a chain whose names are
\* all absent aborts the conversion with a KeyError for an absent name: the
\* chain's last name when every tensor resolved before the chain is present,
\* and otherwise that name or an absent tensor resolved before the chain.  A
\* KeyError for the encoder's last name raised before anything was written
\* comes after one lookup per name of the chain and of the tensors before it.
C7_EmbeddingChains ==
    /\ FirstPresentWins
    /\ \A chain \in {EncoderEmbeddingChain, DecoderEmbeddingChain} :
          (Resolving /\ Exhausted(chain)) =>
              /\ MissingVariable
              /\ exc.name \notin DOMAIN variables
              /\ exc.name = Last(chain) \/ exc.name \in ResolvedBefore(chain)
              /\ ResolvedBefore(chain) \subseteq DOMAIN variables =>
                    exc.name = Last(chain)
    /\ (MissingVariable /\ exc.name = Last(EncoderEmbeddingChain)
           /\ IsNone(model_spec.encoder.embeddings.weight)) =>
          /\ Exhausted(EncoderEmbeddingChain)
          /\ reads = IF version = 1 THEN 4 ELSE 1

\* A generation-1 conversion found neither the decoder's scope nor the shared
\* scope, after the encoder was populated, and aborted naming the shared
\* scope.
C7_Witness ==
    /\ MissingVariable
    /\ version = 1
    /\ ~IsNone(model_spec.encoder.embeddings.weight)
    /\ Exhausted(DecoderEmbeddingChain)
    /\ exc.name = SharedEmbeddings

-----------------------------------------------------------------------------
(* C8 *)

FeedForwardShapes(ffn) ==
    /\ ffn.linear_0.weight.shape = <<Inner, Depth>>
    /\ ffn.linear_1.weight.shape = <<Depth, Inner>>

SelfAttentionShapes(att) ==
    /\ att.linear[1].weight.shape = <<3 * Depth, Depth>>
    /\ att.linear[2].weight.shape = <<Depth, Depth>>

CrossAttentionShapes(att) ==
    /\ att.linear[1].weight.shape = <<Depth, Depth>>
    /\ att.linear[2].weight.shape = <<2 * Depth, Depth>>
    /\ att.linear[3].weight.shape = <<Depth, Depth>>

\* C8: every linear weight of a converted tree has shape [output_dim,
\* input_dim], the decoder projection included, whether read from its own
\* kernel or tied to the target embeddings.
C8_LinearWeightShapes ==
    Converted =>
        /\ DecoderProjection.shape = <<VocabSize, Depth>>
        /\ \A i \in 1..NumLayers :
              /\ FeedForwardShapes(model_spec.encoder.layer[i].ffn)
              /\ SelfAttentionShapes(model_spec.encoder.layer[i].self_attention)
              /\ FeedForwardShapes(model_spec.decoder.layer[i].ffn)
              /\ SelfAttentionShapes(model_spec.decoder.layer[i].self_attention)
              /\ CrossAttentionShapes(model_spec.decoder.layer[i].attention)

\* A generation-1 conversion of kernels stored as 1x1 convolutions, with the
\* projection tied to the embeddings.
C8_Witness ==
    /\ Converted
    /\ version = 1
    /\ ProjectionKernel \notin DOMAIN variables
    /\ Len(variables["transformer/encoder/layer_0/ffn/conv1d/kernel"].shape) = 3

-----------------------------------------------------------------------------
(* C9 *)

NoRelativePosition(att) ==
    IsNone(att.relative_position_keys) /\ IsNone(att.relative_position_values)

HasRelativePosition(att, sc) ==
    /\ (sc \o "/layer/relative_position_keys") \in DOMAIN variables
    /\ (sc \o "/layer/relative_position_values") \in DOMAIN variables
    /\ att.relative_position_keys = variables[sc \o "/layer/relative_position_keys"]
    /\ att.relative_position_values = variables[sc \o "/layer/relative_position_values"]

\* C9: relative position tensors are written only when the specification
\* asks for them; when it does, a generation-2 conversion ends only with every
\* required tensor found (a missing one raises), and a generation-1 conversion
\* raises NotImplementedError before any lookup and any write.
C9_RelativePosition ==
    /\ ~model_spec.with_relative_position =>
          \A i \in 1..NumLayers :
              /\ NoRelativePosition(model_spec.encoder.layer[i].self_attention)
              /\ NoRelativePosition(model_spec.decoder.layer[i].self_attention)
              /\ NoRelativePosition(model_spec.decoder.layer[i].attention)
    /\ (model_spec.with_relative_position /\ version = 2 /\ Converted) =>
          \A i \in 1..NumLayers :
              /\ HasRelativePosition(model_spec.encoder.layer[i].self_attention,
                                     LayerScope("encoder", i - 1) \o "/self_attention")
              /\ HasRelativePosition(model_spec.decoder.layer[i].self_attention,
                                     LayerScope("decoder", i - 1) \o "/self_attention")
    /\ (model_spec.with_relative_position /\ version = 1 /\ AfterSetSpec) =>
          /\ pc = "raised"
          /\ exc.type = "NotImplementedError"
          /\ reads = 0
          /\ model_spec = Pristine

\* A generation-2 conversion raised for a relative position tensor the
\* checkpoint lacks, the keys already written.
C9_Witness ==
    /\ MissingVariable
    /\ model_spec.with_relative_position
    /\ exc.name = "model/encoder/layers/0/self_attention/layer/relative_position_values"
    /\ ~IsNone(model_spec.encoder.layer[1].self_attention.relative_position_keys)

====
